---- MODULE Spec2Model ----
(***************************************************************************)
(* Model of the I/O readiness reactor of fibers-rs, src/io/poll/poller.rs. *)
(*                                                                         *)
(* One thread drives Poller::poll; any number of other threads use         *)
(* PollerHandle::register, EventedHandle::monitor / clone / drop and drop  *)
(* Monitor futures; the owner of the Poller may drop it.  Every handler is *)
(* one action.  The OS facility (mio::Poll together with the boxed         *)
(* mio::Evented trait objects) is the environment: every call into it may  *)
(* succeed or fail, and a wait may report any readiness the current        *)
(* one-shot arming allows.                                                 *)
(***************************************************************************)
EXTENDS Integers, Sequences, FiniteSets, TLC

(* ------------------------------ bounds --------------------------------- *)
\* width of the token space (usize in the source, wrapping_add modulo this)
TokenSpace == 2
\* number of PollerHandle::register calls in a run
MaxResources == 3
\* number of EventedHandle::monitor calls in a run
MaxNotifiers == 3
\* largest value of one shared_count cell
MaxHandles == 2
\* requests that client threads leave waiting in the channel
MaxPending == 2
\* ready events one OS wait returns
MaxEvents == 2
\* calls that client threads make in a run
MaxClientOps == 4
\* calls that client threads make in a run checked for liveness
MaxLiveOps == 3
\* PollerHandles made by Poller::handle and by clone
MaxPollerHandles == 2

Tokens == 0 .. (TokenSpace - 1)
Notifiers == 1 .. MaxNotifiers
Resources == 1 .. MaxResources
PollerHandles == 1 .. MaxPollerHandles
\* enum Interest { Read, Write }
Interest == {"Read", "Write"}

VARIABLES
    registrants,   \* Poller.registrants : HashMap<Token, Registrant>
    next_token,    \* Poller.next_token
    request_rx,    \* the requests sent on request_tx and not yet received
    os,            \* the OS facility's view of every token's resource
    handles,       \* per token: the EventedHandles that share one count cell
    notifier,      \* per Monitor call: its oneshot channel
    next_evented,  \* next resource a client registers
    next_notifier, \* next oneshot a monitor call creates
    panicked,      \* an assert_some! of the reactor failed
    os_error,      \* a call of Poller::poll returned an OS-facility error
    dropped,       \* the Poller, and with it request_rx, was dropped
    is_alive,      \* per PollerHandle: PollerHandle.is_alive
    register_rx,   \* per register call: the oneshot of its Register future
    ops,           \* calls made by client threads so far
    input,         \* what the last call of Poller::poll was given
    ready,         \* Poller.events as the last OS wait filled it
    drive          \* what the last call of Poller::poll did

vars == << registrants, next_token, request_rx, os, handles, notifier,
           next_evented, next_notifier, panicked, os_error, dropped,
           is_alive, register_rx, ops, input, ready, drive >>

(* ------------------------------ helpers -------------------------------- *)
Put(f, k, v) == [x \in (DOMAIN f) \cup {k} |-> IF x = k THEN v ELSE f[x]]
Remove(f, k) == [x \in (DOMAIN f) \ {k} |-> f[x]]
Range(s) == {s[i] : i \in 1 .. Len(s)}

\* Registrant::new
Registrant_new(evented) ==
    [is_first |-> FALSE,
     evented |-> evented,
     read_waitings |-> << >>,
     write_waitings |-> << >>]

\* an interest that asks for both directions as soon as one has a waiter
Mutant_mio_interest(r) ==
    IF r.read_waitings = << >> /\ r.write_waitings = << >>
    THEN {} ELSE {"Read", "Write"}

\* Registrant::mio_interest
mio_interest(r) ==
    (IF r.read_waitings = << >> THEN {} ELSE {"Read"})
    \cup
    (IF r.write_waitings = << >> THEN {} ELSE {"Write"})

\* the OS facility knows nothing of a resource that is not registered, and
\* was never called for a resource that is new
OsUnknown == [known |-> FALSE, armed |-> {}, asked |-> FALSE]

\* the cell and handles of a token no EventedHandle was made for
NoHandles == [shared_count |-> 0, live |-> 0, sending |-> 0, sent |-> 0]

\* EventedHandle::new
EventedHandle_new == [shared_count |-> 1, live |-> 1, sending |-> 0, sent |-> 0]

\* a oneshot channel nobody created yet
NoNotifier == [st |-> "unused", rx |-> FALSE, sends |-> 0, left |-> 0]

NoRequest == [type |-> "None"]
Idle == [kind |-> "Idle", req |-> NoRequest, token |-> -1, timeout |-> "None",
         seen |-> 0, calls |-> << >>, fired |-> << >>, result |-> "Ok"]
NoInput == [timeout |-> "None", failAt |-> 0, replyAlive |-> TRUE]

(* ------------------------------- Init ---------------------------------- *)
\* Poller::with_capacity
Init ==
    /\ registrants = << >>
    /\ next_token = 0
    /\ request_rx = << >>
    /\ os = [t \in Tokens |-> OsUnknown]
    /\ handles = [t \in Tokens |-> NoHandles]
    /\ notifier = [n \in Notifiers |-> NoNotifier]
    /\ next_evented = 1
    /\ next_notifier = 1
    /\ panicked = FALSE
    /\ os_error = FALSE
    /\ dropped = FALSE
    /\ is_alive = [h \in PollerHandles |-> TRUE]
    /\ register_rx = [e \in Resources |-> "unused"]
    /\ ops = 0
    /\ input = NoInput
    /\ ready = << >>
    /\ drive = Idle

(* --------------------------- the OS facility --------------------------- *)
\* One call into the OS facility made by the drive call whose state so far
\* is c.  The call whose number is failAt returns an error and changes
\* nothing but that the resource was asked for; any other call succeeds.
\* register and reregister arm the resource (edge | oneshot) with the
\* interest, deregister forgets it.
OsCall(c, by, op, token, interest, failAt) ==
    LET ok == (Len(c.calls) + 1) # failAt
        call == [by |-> by, op |-> op, token |-> token,
                 interest |-> interest, ok |-> ok]
        effect == IF op = "deregister"
                  THEN OsUnknown
                  ELSE [known |-> TRUE, armed |-> interest, asked |-> TRUE]
    IN [c EXCEPT !.calls = Append(@, call),
                 !.os = IF op = "poll" THEN @
                        ELSE IF ok THEN [@ EXCEPT ![token] = effect]
                        ELSE [@ EXCEPT ![token].asked = TRUE],
                 !.result = IF ok THEN @ ELSE "Err"]

\* the ready events a wait may return: for a token whose one-shot arming is
\* not consumed, any part of the armed interest; the part is empty when the
\* event reports only an error or a hang-up, which is neither is_readable
\* nor is_writable
ReadyEvent(o) ==
    {e \in [token : Tokens, kind : SUBSET Interest] :
        o[e.token].armed # {} /\ e.kind \subseteq o[e.token].armed}

ReadyEvents(o) ==
    {s \in UNION {[1 .. n -> ReadyEvent(o)] : n \in 0 .. MaxEvents} :
        \A i, j \in 1 .. Len(s) : i # j => s[i].token # s[j].token}

(* ----------------------------- the reactor ----------------------------- *)
\* a mio_register without the test for an empty interest
Mutant_mio_register(c, token, by, failAt) ==
    LET r == c.registrants[token]
        interest == mio_interest(r)
    IN IF r.is_first
       THEN OsCall([c EXCEPT !.registrants[token].is_first = FALSE],
                   by, "register", token, interest, failAt)
       ELSE OsCall(c, by, "reregister", token, interest, failAt)

\* Poller::mio_register
mio_register(c, token, by, failAt) ==
    LET r == c.registrants[token]
        interest == mio_interest(r)
    IN IF interest # {}
       THEN IF r.is_first
            THEN OsCall([c EXCEPT !.registrants[token].is_first = FALSE],
                        by, "register", token, interest, failAt)
            ELSE OsCall(c, by, "reregister", token, interest, failAt)
       ELSE c

\* next_token without the contains_key test
Mutant_next_token(regs, counter) ==
    [token |-> counter, next_token |-> (counter + 1) % TokenSpace]

\* an allocator that hands out the lowest free token
Mutant_next_token_lowest(regs, counter) ==
    LET t == CHOOSE x \in Tokens \ DOMAIN regs :
                 \A y \in Tokens \ DOMAIN regs : x <= y
    IN [token |-> t, next_token |-> (t + 1) % TokenSpace]

\* Poller::next_token
RECURSIVE Poller_next_token(_, _)
Poller_next_token(regs, counter) ==
    IF counter \in DOMAIN regs
    THEN Poller_next_token(regs, (counter + 1) % TokenSpace)
    ELSE [token |-> counter, next_token |-> (counter + 1) % TokenSpace]

\* a drain that gives up at the first send that fails
RECURSIVE Mutant_SendAll(_, _)
Mutant_SendAll(nf, q) ==
    IF q = << >> THEN nf
    ELSE LET n == Head(q)
         IN IF nf[n].rx
            THEN Mutant_SendAll([nf EXCEPT ![n] = [st |-> "ok", rx |-> @.rx,
                                                   sends |-> @.sends + 1,
                                                   left |-> @.left + 1]],
                                Tail(q))
            ELSE [nf EXCEPT ![n] = [st |-> "discarded", rx |-> @.rx,
                                    sends |-> @.sends + 1,
                                    left |-> @.left + 1]]

\* tx.send(()) on every drained sender, in queue order; a send to a dropped
\* receiver fails and the failure is discarded
RECURSIVE SendAll(_, _)
SendAll(nf, q) ==
    IF q = << >> THEN nf
    ELSE LET n == Head(q)
         IN SendAll([nf EXCEPT ![n] = [st |-> IF @.rx THEN "ok" ELSE "discarded",
                                       rx |-> @.rx,
                                       sends |-> @.sends + 1,
                                       left |-> @.left + 1]],
                    Tail(q))

\* the senders of a queue are dropped without a send
RECURSIVE DropAll(_, _)
DropAll(nf, q) ==
    IF q = << >> THEN nf
    ELSE LET n == Head(q)
         IN DropAll([nf EXCEPT ![n] = [st |-> "closed", rx |-> @.rx,
                                       sends |-> @.sends,
                                       left |-> @.left + 1]],
                    Tail(q))

\* impl Drop for EventedHandle, run by the reactor itself on the handle that
\* a failed reply.send gives back
DropInReactor(c, token) ==
    LET h == c.handles[token]
        old == h.shared_count
    IN IF old = 1
       THEN [c EXCEPT !.handles[token] = [shared_count |-> old - 1,
                                          live |-> h.live - 1,
                                          sending |-> h.sending,
                                          sent |-> h.sent + 1],
                      !.request_rx = Append(@, [type |-> "Deregister",
                                                token |-> token])]
       ELSE [c EXCEPT !.handles[token] = [shared_count |-> old - 1,
                                          live |-> h.live - 1,
                                          sending |-> h.sending,
                                          sent |-> h.sent]]

\* Poller::handle_request, Request::Register
handle_Register(c, request, replyAlive) ==
    LET nt == Poller_next_token(c.registrants, c.next_token)
        token == nt.token
        c1 == [c EXCEPT !.next_token = nt.next_token,
                        !.registrants = Put(@, token, Registrant_new(request.evented)),
                        !.handles[token] = EventedHandle_new,
                        !.token = token]
    IN IF replyAlive
       THEN [c1 EXCEPT !.register_rx[request.evented] = "ok"]
       ELSE DropInReactor([c1 EXCEPT !.register_rx[request.evented] = "dropped"],
                          token)

\* Poller::handle_request, Request::Deregister
handle_Deregister(c, request, failAt) ==
    LET token == request.token
    IN IF token \notin DOMAIN c.registrants
       THEN [c EXCEPT !.result = "Panic"]
       ELSE LET r == c.registrants[token]
                c1 == [c EXCEPT !.registrants = Remove(@, token)]
                c2 == IF ~ r.is_first
                      THEN OsCall(c1, "request", "deregister", token, {}, failAt)
                      ELSE c1
            IN \* r goes out of scope: its resource and its senders are dropped
               [c2 EXCEPT !.os[token] = OsUnknown,
                          !.notifier = DropAll(DropAll(@, r.read_waitings),
                                               r.write_waitings)]

\* a Monitor arm that tests both lengths with &&
Mutant_handle_Monitor(c, request, failAt) ==
    LET token == request.token
    IN IF token \notin DOMAIN c.registrants
       THEN [c EXCEPT !.result = "Panic",
                      !.notifier[request.notifier].st = "closed"]
       ELSE LET c1 == [c EXCEPT
                        !.registrants[token].read_waitings =
                            IF request.interest = "Read"
                            THEN Append(@, request.notifier) ELSE @,
                        !.registrants[token].write_waitings =
                            IF request.interest = "Write"
                            THEN Append(@, request.notifier) ELSE @,
                        !.notifier[request.notifier].st = "queued"]
                r == c1.registrants[token]
            IN IF Len(r.read_waitings) = 1 /\ Len(r.write_waitings) = 1
               THEN mio_register(c1, token, "request", failAt)
               ELSE c1

\* Poller::handle_request, Request::Monitor
handle_Monitor(c, request, failAt) ==
    LET token == request.token
    IN IF token \notin DOMAIN c.registrants
       THEN \* the request and its sender are dropped by the unwinding
            [c EXCEPT !.result = "Panic",
                      !.notifier[request.notifier].st = "closed"]
       ELSE LET c1 == [c EXCEPT
                        !.registrants[token].read_waitings =
                            IF request.interest = "Read"
                            THEN Append(@, request.notifier) ELSE @,
                        !.registrants[token].write_waitings =
                            IF request.interest = "Write"
                            THEN Append(@, request.notifier) ELSE @,
                        !.notifier[request.notifier].st = "queued"]
                r == c1.registrants[token]
            IN IF Len(r.read_waitings) = 1 \/ Len(r.write_waitings) = 1
               THEN mio_register(c1, token, "request", failAt)
               ELSE c1

\* Poller::handle_request
handle_request(c, request, replyAlive, failAt) ==
    CASE request.type = "Register" -> handle_Register(c, request, replyAlive)
      [] request.type = "Deregister" -> handle_Deregister(c, request, failAt)
      [] request.type = "Monitor" -> handle_Monitor(c, request, failAt)

\* a loop body that tests is_writable for both queues
Mutant_poll_event_kind(c, e, failAt) ==
    IF e.token \notin DOMAIN c.registrants
    THEN [c EXCEPT !.result = "Panic"]
    ELSE LET r == c.registrants[e.token]
             rd == IF "Write" \in e.kind THEN r.read_waitings ELSE << >>
             wr == IF "Write" \in e.kind THEN r.write_waitings ELSE << >>
             c1 == [c EXCEPT
                     !.registrants[e.token].read_waitings =
                         IF "Write" \in e.kind THEN << >> ELSE @,
                     !.registrants[e.token].write_waitings =
                         IF "Write" \in e.kind THEN << >> ELSE @,
                     !.notifier = SendAll(SendAll(@, rd), wr),
                     !.fired = @ \o rd \o wr,
                     !.seen = @ + 1]
         IN mio_register(c1, e.token, "event", failAt)

\* a loop body that wakes one waiter of a ready queue and keeps the others
Mutant_poll_event_one(c, e, failAt) ==
    IF e.token \notin DOMAIN c.registrants
    THEN [c EXCEPT !.result = "Panic"]
    ELSE LET r == c.registrants[e.token]
             rd == IF "Read" \in e.kind /\ r.read_waitings # << >>
                   THEN << Head(r.read_waitings) >> ELSE << >>
             wr == IF "Write" \in e.kind /\ r.write_waitings # << >>
                   THEN << Head(r.write_waitings) >> ELSE << >>
             c1 == [c EXCEPT
                     !.registrants[e.token].read_waitings =
                         IF rd # << >> THEN Tail(@) ELSE @,
                     !.registrants[e.token].write_waitings =
                         IF wr # << >> THEN Tail(@) ELSE @,
                     !.notifier = SendAll(SendAll(@, rd), wr),
                     !.fired = @ \o rd \o wr,
                     !.seen = @ + 1]
         IN mio_register(c1, e.token, "event", failAt)

\* a loop body that sends to the waiters and leaves them in their queue
Mutant_poll_event_keep(c, e, failAt) ==
    IF e.token \notin DOMAIN c.registrants
    THEN [c EXCEPT !.result = "Panic"]
    ELSE LET r == c.registrants[e.token]
             rd == IF "Read" \in e.kind THEN r.read_waitings ELSE << >>
             wr == IF "Write" \in e.kind THEN r.write_waitings ELSE << >>
             c1 == [c EXCEPT
                     !.notifier = SendAll(SendAll(@, rd), wr),
                     !.fired = @ \o rd \o wr,
                     !.seen = @ + 1]
         IN mio_register(c1, e.token, "event", failAt)

\* a loop body that forgets a registrant left without a waiter
Mutant_poll_event_forget(c, e, failAt) ==
    IF e.token \notin DOMAIN c.registrants
    THEN [c EXCEPT !.result = "Panic"]
    ELSE LET r == c.registrants[e.token]
             rd == IF "Read" \in e.kind THEN r.read_waitings ELSE << >>
             wr == IF "Write" \in e.kind THEN r.write_waitings ELSE << >>
             c1 == [c EXCEPT
                     !.registrants[e.token].read_waitings =
                         IF "Read" \in e.kind THEN << >> ELSE @,
                     !.registrants[e.token].write_waitings =
                         IF "Write" \in e.kind THEN << >> ELSE @,
                     !.notifier = SendAll(SendAll(@, rd), wr),
                     !.fired = @ \o rd \o wr,
                     !.seen = @ + 1]
         IN IF mio_interest(c1.registrants[e.token]) = {}
            THEN [c1 EXCEPT !.registrants = Remove(@, e.token)]
            ELSE mio_register(c1, e.token, "event", failAt)

\* Poller::poll, the body of the loop over the ready events
poll_event(c, e, failAt) ==
    IF e.token \notin DOMAIN c.registrants
    THEN [c EXCEPT !.result = "Panic"]
    ELSE LET r == c.registrants[e.token]
             rd == IF "Read" \in e.kind THEN r.read_waitings ELSE << >>
             wr == IF "Write" \in e.kind THEN r.write_waitings ELSE << >>
             c1 == [c EXCEPT
                     !.registrants[e.token].read_waitings =
                         IF "Read" \in e.kind THEN << >> ELSE @,
                     !.registrants[e.token].write_waitings =
                         IF "Write" \in e.kind THEN << >> ELSE @,
                     !.notifier = SendAll(SendAll(@, rd), wr),
                     !.fired = @ \o rd \o wr,
                     !.seen = @ + 1]
         IN mio_register(c1, e.token, "event", failAt)

\* a loop that goes on to the next event after a rearm that failed
RECURSIVE Mutant_poll_events_on(_, _, _)
Mutant_poll_events_on(c, events, failAt) ==
    IF events = << >> \/ c.result = "Panic" THEN c
    ELSE Mutant_poll_events_on(poll_event(c, Head(events), failAt),
                               Tail(events), failAt)

\* a loop that, when the wait returned no event, wakes the waiters of one
\* registrant all the same
RECURSIVE Mutant_poll_events_spurious(_, _, _)
Mutant_poll_events_spurious(c, events, failAt) ==
    IF c.result # "Ok" THEN c
    ELSE IF events = << >>
         THEN IF c.seen = 0 /\ DOMAIN c.registrants # {}
              THEN poll_event(c, [token |-> CHOOSE t \in DOMAIN c.registrants : TRUE,
                                  kind |-> Interest], failAt)
              ELSE c
         ELSE Mutant_poll_events_spurious(poll_event(c, Head(events), failAt),
                                          Tail(events), failAt)

\* Poller::poll, the loop over the ready events; an error or a failed
\* assertion leaves the loop
RECURSIVE poll_events(_, _, _)
poll_events(c, events, failAt) ==
    IF events = << >> \/ c.result # "Ok" THEN c
    ELSE poll_events(poll_event(c, Head(events), failAt), Tail(events), failAt)

\* the most OS-facility calls one drive call makes: one for the request, the
\* wait, and one rearm for each ready event
MaxCalls == 2 + MaxEvents

\* the one-shot arming of every reported token is consumed by the report
Consume(o, events) ==
    [t \in Tokens |->
        IF \E i \in 1 .. Len(events) : events[i].token = t
        THEN [o[t] EXCEPT !.armed = {}] ELSE o[t]]

\* the timeout the caller gives Poller::poll: an Option<Duration> that the
\* call hands to the OS wait unread, unless it replaces it by zero
Timeouts == {"Caller"}

\* a wait that always uses the caller's timeout
Mutant_wait_timeout(did_something, timeout) == timeout

\* Poller::poll, the timeout given to the OS wait
wait_timeout(did_something, timeout) ==
    IF did_something THEN "Zero" ELSE timeout

\* Poller::poll
Poll ==
    /\ ~ panicked
    /\ ~ dropped
    /\ UNCHANGED << next_evented, next_notifier, ops, dropped, is_alive >>
    /\ request_rx # << >> /\ Head(request_rx).type = "Register"
          => DOMAIN registrants # Tokens
    /\ \E timeout \in Timeouts,
          failAt \in 0 .. MaxCalls,
          replyAlive \in IF request_rx # << >> /\ Head(request_rx).type = "Register"
                         THEN BOOLEAN ELSE {TRUE} :
        /\ input' = [timeout |-> timeout, failAt |-> failAt,
                     replyAlive |-> replyAlive]
        /\ LET c0 == [registrants |-> registrants, next_token |-> next_token,
                      request_rx |-> request_rx, os |-> os, handles |-> handles,
                      notifier |-> notifier, register_rx |-> register_rx,
                      token |-> -1, seen |-> 0,
                      calls |-> << >>, fired |-> << >>, result |-> "Ok"]
               did_something == request_rx # << >>
               request == IF did_something THEN Head(request_rx) ELSE NoRequest
               c1 == IF did_something
                     THEN handle_request([c0 EXCEPT !.request_rx = Tail(@)],
                                         request, replyAlive, failAt)
                     ELSE c0
               used == wait_timeout(did_something, timeout)
           IN \E c2 \in {IF c1.result = "Ok"
                         THEN OsCall(c1, "wait", "poll", -1, {}, failAt)
                         ELSE c1} :
              \E events \in IF c2.result = "Ok"
                            THEN ReadyEvents(c2.os) ELSE {<< >>} :
                 /\ failAt <= Len(c2.calls) + Len(events)
                 /\ ready' = events
                 /\ \E c3 \in {poll_events([c2 EXCEPT !.os = Consume(@, events)],
                                           events, failAt)} :
                       /\ failAt <= Len(c3.calls)
                       /\ registrants' = c3.registrants
                       /\ next_token' = c3.next_token
                       /\ request_rx' = c3.request_rx
                       /\ os' = c3.os
                       /\ handles' = c3.handles
                       /\ notifier' = c3.notifier
                       /\ register_rx' = c3.register_rx
                       /\ panicked' = (c3.result = "Panic")
                       /\ os_error' = (os_error \/ c3.result = "Err")
                       /\ drive' = [kind |-> "Poll", req |-> request,
                                    token |-> c3.token, timeout |-> used,
                                    seen |-> c3.seen, calls |-> c3.calls,
                                    fired |-> c3.fired, result |-> c3.result]

(* ----------------------------- the clients ----------------------------- *)
Pending(type) ==
    Cardinality({i \in 1 .. Len(request_rx) : request_rx[i].type = type})

\* a register that clears the flag when the send succeeded
Mutant_register(h) ==
    /\ ops < MaxClientOps
    /\ ops' = ops + 1
    /\ next_evented <= MaxResources
    /\ next_evented' = next_evented + 1
    /\ IF dropped
       THEN /\ register_rx' = [register_rx EXCEPT ![next_evented] = "closed"]
            /\ UNCHANGED << request_rx, is_alive >>
       ELSE /\ Len(request_rx) < MaxPending
            /\ Cardinality(DOMAIN registrants) + Pending("Register") < TokenSpace
            /\ request_rx' = Append(request_rx, [type |-> "Register",
                                                 evented |-> next_evented])
            /\ register_rx' = [register_rx EXCEPT ![next_evented] = "pending"]
            /\ is_alive' = [is_alive EXCEPT ![h] = FALSE]
    /\ drive' = Idle
    /\ input' = NoInput
    /\ ready' = << >>
    /\ UNCHANGED << registrants, next_token, os, handles, notifier,
                    next_notifier, panicked, os_error, dropped >>

\* PollerHandle::register.  A send on a channel whose receiver is dropped
\* fails and gives the request back; the request is dropped there, and the
\* reply sender in it, so the oneshot of the returned future is closed.
PollerHandle_register(h) ==
    /\ ops < MaxClientOps
    /\ ops' = ops + 1
    /\ next_evented <= MaxResources
    /\ next_evented' = next_evented + 1
    /\ IF dropped
       THEN /\ is_alive' = [is_alive EXCEPT ![h] = FALSE]
            /\ register_rx' = [register_rx EXCEPT ![next_evented] = "closed"]
            /\ UNCHANGED request_rx
       ELSE /\ Len(request_rx) < MaxPending
            /\ Cardinality(DOMAIN registrants) + Pending("Register") < TokenSpace
            /\ request_rx' = Append(request_rx, [type |-> "Register",
                                                 evented |-> next_evented])
            /\ register_rx' = [register_rx EXCEPT ![next_evented] = "pending"]
            /\ UNCHANGED is_alive
    /\ drive' = Idle
    /\ input' = NoInput
    /\ ready' = << >>
    /\ UNCHANGED << registrants, next_token, os, handles, notifier,
                    next_notifier, panicked, os_error, dropped >>

\* EventedHandle::monitor; the result of the send is discarded, and a
\* request that was not sent is dropped with its notifier
EventedHandle_monitor(token, interest) ==
    /\ ops < MaxClientOps
    /\ ops' = ops + 1
    /\ handles[token].live > 0
    /\ next_notifier <= MaxNotifiers
    /\ IF dropped
       THEN /\ UNCHANGED request_rx
            /\ notifier' = [notifier EXCEPT ![next_notifier] =
                               [st |-> "refused", rx |-> TRUE,
                                sends |-> 0, left |-> 0]]
       ELSE /\ Len(request_rx) < MaxPending
            /\ request_rx' = Append(request_rx,
                                    [type |-> "Monitor", token |-> token,
                                     interest |-> interest,
                                     notifier |-> next_notifier])
            /\ notifier' = [notifier EXCEPT ![next_notifier] =
                               [st |-> "sent", rx |-> TRUE,
                                sends |-> 0, left |-> 0]]
    /\ next_notifier' = next_notifier + 1
    /\ drive' = Idle
    /\ input' = NoInput
    /\ ready' = << >>
    /\ UNCHANGED << registrants, next_token, os, handles, next_evented,
                    panicked, os_error, dropped, is_alive, register_rx >>

\* impl Clone for EventedHandle
EventedHandle_clone(token) ==
    /\ ops < MaxClientOps
    /\ ops' = ops + 1
    /\ handles[token].live > 0
    /\ handles[token].shared_count < MaxHandles
    /\ handles' = [handles EXCEPT ![token].shared_count = @ + 1,
                                  ![token].live = @ + 1]
    /\ drive' = Idle
    /\ input' = NoInput
    /\ ready' = << >>
    /\ UNCHANGED << registrants, next_token, request_rx, os, notifier,
                    next_evented, next_notifier, panicked, os_error, dropped,
                    is_alive, register_rx >>

\* a drop that sends Deregister whatever fetch_sub read
Mutant_drop(token) ==
    /\ ops < MaxClientOps
    /\ ops' = ops + 1
    /\ handles[token].live > 0
    /\ handles' = [handles EXCEPT ![token].shared_count = @ - 1,
                                  ![token].live = @ - 1,
                                  ![token].sending = @ + 1]
    /\ drive' = Idle
    /\ input' = NoInput
    /\ ready' = << >>
    /\ UNCHANGED << registrants, next_token, request_rx, os, notifier,
                    next_evented, next_notifier, panicked, os_error, dropped,
                    is_alive, register_rx >>

\* a drop that sends Deregister when fetch_sub read 2
Mutant_drop_early(token) ==
    /\ ops < MaxClientOps
    /\ ops' = ops + 1
    /\ handles[token].live > 0
    /\ handles' = [handles EXCEPT ![token].shared_count = @ - 1,
                                  ![token].live = @ - 1,
                                  ![token].sending =
                                      IF handles[token].shared_count = 2
                                      THEN @ + 1 ELSE @]
    /\ drive' = Idle
    /\ input' = NoInput
    /\ ready' = << >>
    /\ UNCHANGED << registrants, next_token, request_rx, os, notifier,
                    next_evented, next_notifier, panicked, os_error, dropped,
                    is_alive, register_rx >>

\* impl Drop for EventedHandle: shared_count.fetch_sub(1); the thread that
\* reads 1 goes on to send the Deregister request
EventedHandle_drop(token) ==
    /\ ops < MaxClientOps
    /\ ops' = ops + 1
    /\ handles[token].live > 0
    /\ handles' = [handles EXCEPT ![token].shared_count = @ - 1,
                                  ![token].live = @ - 1,
                                  ![token].sending =
                                      IF handles[token].shared_count = 1
                                      THEN @ + 1 ELSE @]
    /\ drive' = Idle
    /\ input' = NoInput
    /\ ready' = << >>
    /\ UNCHANGED << registrants, next_token, request_rx, os, notifier,
                    next_evented, next_notifier, panicked, os_error, dropped,
                    is_alive, register_rx >>

\* impl Drop for EventedHandle: request_tx.send(Request::Deregister(token));
\* the result of the send is discarded
EventedHandle_drop_send(token) ==
    /\ handles[token].sending > 0
    /\ UNCHANGED ops
    /\ IF dropped
       THEN /\ UNCHANGED request_rx
            /\ handles' = [handles EXCEPT ![token].sending = @ - 1]
       ELSE /\ request_rx' = Append(request_rx, [type |-> "Deregister",
                                                 token |-> token])
            /\ handles' = [handles EXCEPT ![token].sending = @ - 1,
                                          ![token].sent = @ + 1]
    /\ drive' = Idle
    /\ input' = NoInput
    /\ ready' = << >>
    /\ UNCHANGED << registrants, next_token, os, notifier, next_evented,
                    next_notifier, panicked, os_error, dropped, is_alive,
                    register_rx >>

\* a Monitor future is dropped before its oneshot fired
Monitor_drop(n) ==
    /\ ops < MaxClientOps
    /\ ops' = ops + 1
    /\ notifier[n].st \in {"sent", "queued"}
    /\ notifier[n].rx
    /\ notifier' = [notifier EXCEPT ![n].rx = FALSE]
    /\ drive' = Idle
    /\ input' = NoInput
    /\ ready' = << >>
    /\ UNCHANGED << registrants, next_token, request_rx, os, handles,
                    next_evented, next_notifier, panicked, os_error, dropped,
                    is_alive, register_rx >>

\* the Poller is dropped: request_rx goes, and every request still in the
\* channel with the senders it carries; the registrants go, with their
\* resources and the senders in their queues; mio::Poll goes
Poller_drop ==
    /\ ~ dropped
    /\ dropped' = TRUE
    /\ request_rx' = << >>
    /\ registrants' = << >>
    /\ os' = [t \in Tokens |-> OsUnknown]
    /\ register_rx' = [e \in Resources |->
                          IF register_rx[e] = "pending"
                          THEN "closed" ELSE register_rx[e]]
    /\ notifier' = [n \in Notifiers |->
                       CASE notifier[n].st = "sent" ->
                              [notifier[n] EXCEPT !.st = "refused"]
                         [] notifier[n].st = "queued" ->
                              [notifier[n] EXCEPT !.st = "closed",
                                                  !.left = @ + 1]
                         [] OTHER -> notifier[n]]
    /\ drive' = Idle
    /\ input' = NoInput
    /\ ready' = << >>
    /\ UNCHANGED << next_token, handles, next_evented, next_notifier,
                    panicked, os_error, is_alive, ops >>

Next ==
    \/ Poll
    \/ \E h \in PollerHandles : PollerHandle_register(h)
    \/ \E token \in Tokens, interest \in Interest :
          EventedHandle_monitor(token, interest)
    \/ \E token \in Tokens : EventedHandle_clone(token)
    \/ \E token \in Tokens : EventedHandle_drop(token)
    \/ \E token \in Tokens : EventedHandle_drop_send(token)
    \/ \E n \in Notifiers : Monitor_drop(n)
    \/ Poller_drop

Spec == Init /\ [][Next]_vars

\* the drive loop keeps calling Poller::poll, and a thread inside drop runs
\* on to its send
\* the same steps in runs of at most MaxLiveOps client calls
LiveNext ==
    \/ Poll
    \/ \E token \in Tokens : EventedHandle_drop_send(token)
    \/ ops < MaxLiveOps /\ \E h \in PollerHandles : PollerHandle_register(h)
    \/ ops < MaxLiveOps /\ \E token \in Tokens, interest \in Interest :
                              EventedHandle_monitor(token, interest)
    \/ ops < MaxLiveOps /\ \E token \in Tokens : EventedHandle_clone(token)
    \/ ops < MaxLiveOps /\ \E token \in Tokens : EventedHandle_drop(token)
    \/ ops < MaxLiveOps /\ \E n \in Notifiers : Monitor_drop(n)
    \/ Poller_drop

LiveSpec ==
    /\ Init /\ [][LiveNext]_vars
    /\ WF_vars(Poll)
    /\ \A token \in Tokens : WF_vars(EventedHandle_drop_send(token))

(* ------------------------------ properties ----------------------------- *)
\* the step is a drive call (every other action leaves drive = Idle)
Driven == drive'.kind = "Poll"

\* the Deregister requests for a token that wait in the channel
PendingDeregister(token) ==
    Cardinality({i \in 1 .. Len(request_rx) :
                    /\ request_rx[i].type = "Deregister"
                    /\ request_rx[i].token = token})

\* C1: processing Register hands out a token that no registrant in the map
\* holds: the new registrant is inserted under a token that was free, and
\* every registrant that was in the map is still there, under its own token,
\* with its own resource.
C1_TokenFresh ==
    [][Driven /\ drive'.req.type = "Register" =>
          /\ drive'.token \in Tokens \ DOMAIN registrants
          /\ drive'.token \in DOMAIN registrants'
          /\ registrants'[drive'.token].evented = drive'.req.evented
          /\ \A t \in DOMAIN registrants :
                /\ t \in DOMAIN registrants'
                /\ registrants'[t].evented = registrants[t].evented]_vars

\* C1 witness: the counter has wrapped, found token 0 still held, skipped it
\* and reused the last token, whose earlier registrant was removed.
C1_Witness ==
    /\ drive.kind = "Poll"
    /\ drive.req.type = "Register"
    /\ drive.req.evented > TokenSpace
    /\ drive.token = TokenSpace - 1
    /\ next_token = 0
    /\ DOMAIN registrants = Tokens

\* C2: for every token, at most one Deregister is ever produced by its
\* handles; it is produced only by the drop that takes the count from 1 to
\* 0, so never while a handle is live; the count equals the number of live
\* handles; and once every handle of a registered token is dropped and the
\* dropping thread has sent, exactly one Deregister for the token is in the
\* channel.
C2_OneDeregister ==
    \A t \in Tokens :
        LET h == handles[t]
        IN /\ h.shared_count = h.live
           /\ h.sending + h.sent <= 1
           /\ h.sending + h.sent = 1 => h.live = 0
           /\ PendingDeregister(t) <= h.sent
           /\ t \in DOMAIN registrants /\ h.live = 0 =>
                 /\ h.sending + h.sent = 1
                 /\ PendingDeregister(t) = h.sent

\* C2 witness: one resource, its handle cloned once, both handles dropped
\* and the Deregister sent.
C2_Witness ==
    /\ ops = 4
    /\ next_evented = 2
    /\ next_notifier = 1
    /\ handles[0] = [shared_count |-> 0, live |-> 0, sending |-> 0, sent |-> 1]
    /\ PendingDeregister(0) = 1

\* one direction's queue of a registrant
waitings(r, d) == IF d = "Read" THEN r.read_waitings ELSE r.write_waitings

\* In a drive step: the queue of (token, direction) when the OS wait
\* returns, that is the queue before the call followed by the notifier the
\* call's own Monitor request pushed.
QueueAtWait(t, d) ==
    (IF t \in DOMAIN registrants THEN waitings(registrants[t], d) ELSE << >>)
    \o
    (IF /\ drive'.req.type = "Monitor"
        /\ drive'.req.token = t
        /\ drive'.req.interest = d
     THEN << drive'.req.notifier >> ELSE << >>)

\* In a drive step: the calls the request handler made
RequestCalls ==
    {i \in 1 .. Len(drive'.calls) : drive'.calls[i].by = "request"}

\* In a drive step: the rearm calls made for a token after its event
EventCalls(t) ==
    {i \in 1 .. Len(drive'.calls) :
        drive'.calls[i].by = "event" /\ drive'.calls[i].token = t}

Arming == {"register", "reregister"}

\* C3: when a drive call handles a ready event for (token, direction),
\* every Monitor future waiting on that direction resolves with success; a
\* notifier is sent to at most once and a resolved future stays resolved;
\* and once the last handle of a registered token is dropped, the reactor,
\* driven repeatedly, processes the Deregister and the registrant is gone.
C3_MonitorResolves ==
    /\ [][(Driven =>
              \A i \in 1 .. drive'.seen :
                 \A d \in ready'[i].kind :
                    \A n \in Range(QueueAtWait(ready'[i].token, d)) :
                       notifier[n].rx =>
                          notifier'[n].st = "ok" /\ notifier'[n].sends = 1)
          /\ (\A m \in Notifiers :
                 /\ notifier'[m].sends <= 1
                 /\ notifier[m].st = "ok" => notifier'[m] = notifier[m])]_vars
    /\ \A t \in Tokens :
          (t \in DOMAIN registrants /\ handles[t].live = 0)
             ~> (t \notin DOMAIN registrants)

\* C3 witness: the only resource was registered, its monitor resolved with
\* success, its handle was dropped and the Deregister removed the registrant.
C3_Witness ==
    /\ drive.kind = "Poll"
    /\ drive.req.type = "Deregister"
    /\ drive.result = "Ok"
    /\ next_evented = 2
    /\ registrants = << >>
    /\ \E n \in Notifiers : notifier[n].st = "ok"

\* C4: processing Monitor makes exactly one arming call when the pushed
\* direction's queue was empty, and no OS-facility call when that queue
\* already had a waiter.
C4_ArmOnFirstWaiterOnly ==
    [][Driven /\ drive'.req.type = "Monitor"
              /\ drive'.req.token \in DOMAIN registrants =>
          LET before == Len(waitings(registrants[drive'.req.token],
                                     drive'.req.interest))
          IN /\ before = 0 =>
                   /\ Cardinality(RequestCalls) = 1
                   /\ \A i \in RequestCalls : drive'.calls[i].op \in Arming
             /\ before > 0 => RequestCalls = {}]_vars

\* C5: when a drive call handles a ready event for (token, direction), every
\* notifier queued for that direction is sent to in that call, in queue
\* order, none stays queued, and the queue is empty afterwards.
C5_Broadcast ==
    [][Driven =>
          \A i \in 1 .. drive'.seen :
             \A d \in ready'[i].kind :
                LET t == ready'[i].token
                    q == QueueAtWait(t, d)
                IN /\ \E k \in 0 .. (Len(drive'.fired) - Len(q)) :
                         SubSeq(drive'.fired, k + 1, k + Len(q)) = q
                   /\ \A n \in Range(q) :
                         /\ notifier'[n].sends = notifier[n].sends + 1
                         /\ notifier'[n].st = IF notifier[n].rx
                                              THEN "ok" ELSE "discarded"
                   /\ waitings(registrants'[t], d) = << >>]_vars

\* C5 witness: one event for one direction woke two queued waiters.
C5_Witness ==
    /\ drive.kind = "Poll"
    /\ Len(ready) = 1
    /\ Cardinality(ready[1].kind) = 1
    /\ Len(drive.fired) = 2
    /\ \A n \in Range(drive.fired) : notifier[n].st = "ok"

\* C6: when both directions of a token have waiters and the event reports
\* one direction only, exactly that direction's waiters are sent to, the
\* other queue and its notifiers are as they were, and the rearm call made
\* for the token asks for the other direction alone.
C6_OtherDirectionKept ==
    [][Driven =>
          \A i \in 1 .. drive'.seen :
             \A d \in Interest :
                LET t == ready'[i].token
                    o == CHOOSE x \in Interest : x # d
                    q == QueueAtWait(t, o)
                IN ready'[i].kind = {d} /\ QueueAtWait(t, d) # << >>
                      /\ q # << >> =>
                      /\ waitings(registrants'[t], o) = q
                      /\ waitings(registrants'[t], d) = << >>
                      /\ \A n \in Range(q) :
                            /\ notifier'[n].st = "queued"
                            /\ notifier'[n].sends = 0
                            /\ \A k \in 1 .. Len(drive'.fired) : drive'.fired[k] # n
                      /\ Cardinality(EventCalls(t)) = 1
                      /\ \A k \in EventCalls(t) :
                            /\ drive'.calls[k].op \in Arming
                            /\ drive'.calls[k].interest = {o}
                            /\ os'[t].armed = IF drive'.calls[k].ok THEN {o} ELSE {}]_vars

\* C6 witness: readers and writers were queued, only writable was reported,
\* the writer was woken and the reader is still queued and armed.
C6_Witness ==
    /\ drive.kind = "Poll"
    /\ drive.result = "Ok"
    /\ Len(ready) = 1
    /\ ready[1].kind = {"Write"}
    /\ drive.fired # << >>
    /\ registrants[ready[1].token].read_waitings # << >>
    /\ os[ready[1].token].armed = {"Read"}

\* C7: the reactor issues the OS-level deregistration only for a registrant
\* that the OS facility had registered; for one it never registered,
\* processing Deregister makes no OS-facility call.
C7_NoDeregisterCallIfNeverRegistered ==
    [][Driven /\ drive'.req.type = "Deregister"
              /\ drive'.req.token \in DOMAIN registrants
              /\ ~ os[drive'.req.token].known =>
          RequestCalls = {}]_vars

\* In a drive step: the OS facility had registered the token's resource
\* when the call numbered i was made
KnownBefore(i) ==
    LET t == drive'.calls[i].token
    IN \/ os[t].known
       \/ \E j \in 1 .. (i - 1) :
             /\ drive'.calls[j].token = t
             /\ drive'.calls[j].op \in Arming
             /\ drive'.calls[j].ok

\* C8: an arming call for a resource the OS facility has not registered is
\* an initial register, and one for a resource it has registered is a
\* reregister.
C8_RegisterThenReregister ==
    [][Driven =>
          \A i \in 1 .. Len(drive'.calls) :
             /\ drive'.calls[i].op = "reregister" => KnownBefore(i)
             /\ drive'.calls[i].op = "register" => ~ KnownBefore(i)]_vars

\* the places of a notifier in the waiter queues of the registrants
Places(regs, n) ==
    {p \in UNION {{<< t, d, k >> : k \in 1 .. Len(waitings(regs[t], d))} :
                     t \in DOMAIN regs, d \in Interest} :
        waitings(regs[p[1]], p[2])[p[3]] = n}

\* C9: a notifier is in at most one place of the queues, and it is there
\* exactly while it is queued; it leaves at most once and is sent to at
\* most once; fired and abandoned are final; and processing Deregister
\* removes the registrant and closes every notifier of its queues without
\* a send.
C9_ConsumedOnce ==
    [][/\ \A n \in Notifiers :
             /\ Cardinality(Places(registrants', n)) <= 1
             /\ notifier'[n].st = "queued" <=> Places(registrants', n) # {}
             /\ notifier'[n].sends <= 1
             /\ notifier'[n].left <= 1
             /\ notifier'[n].st \in {"ok", "discarded"} =>
                   notifier'[n].sends = 1 /\ notifier'[n].left = 1
             /\ notifier'[n].st = "closed" =>
                   notifier'[n].sends = 0 /\ notifier'[n].left = 1
             /\ notifier[n].st \in {"ok", "discarded", "closed"} =>
                   notifier'[n].st = notifier[n].st
       /\ Driven /\ drive'.req.type = "Deregister"
                 /\ drive'.req.token \in DOMAIN registrants =>
             /\ drive'.req.token \notin DOMAIN registrants'
             /\ \A n \in Notifiers :
                   Places(registrants, n) \cap ({drive'.req.token} \X Interest
                                                \X (1 .. MaxNotifiers)) # {} =>
                      notifier'[n].st = "closed"]_vars

\* C9 witness: a Deregister abandoned one queued notifier after another
\* notifier had been fired.
C9_Witness ==
    /\ drive.kind = "Poll"
    /\ drive.req.type = "Deregister"
    /\ \E n, m \in Notifiers :
          notifier[n].st = "closed" /\ notifier[m].st = "ok"

\* C10: dropping a Monitor future changes no queue and sends no request;
\* when a later event finds the orphaned entry in its queue, the failed
\* send is discarded, every other waiter of the queue resolves with
\* success, the queue is emptied, and the drive call returns an error only
\* if an OS-facility call failed.
C10_CancelIsLocal ==
    [][/\ \A n \in Notifiers :
             notifier[n].rx /\ ~ notifier'[n].rx =>
                /\ registrants' = registrants
                /\ request_rx' = request_rx
                /\ notifier'[n].st = notifier[n].st
       /\ Driven =>
             /\ (\A k \in 1 .. Len(drive'.calls) : drive'.calls[k].ok) =>
                   drive'.result = "Ok"
             /\ \A i \in 1 .. drive'.seen :
                   \A d \in ready'[i].kind :
                      LET t == ready'[i].token
                          q == QueueAtWait(t, d)
                      IN (\E n \in Range(q) : ~ notifier[n].rx) =>
                            /\ \A m \in Range(q) :
                                  notifier'[m].st = IF notifier[m].rx
                                                    THEN "ok" ELSE "discarded"
                            /\ waitings(registrants'[t], d) = << >>]_vars

\* C10 witness: the first of two waiters was cancelled, one event found
\* both, the second resolved with success and the drive call returned Ok.
C10_Witness ==
    /\ drive.kind = "Poll"
    /\ drive.result = "Ok"
    /\ Len(ready) = 1
    /\ Cardinality(ready[1].kind) = 1
    /\ Len(drive.fired) = 2
    /\ notifier[drive.fired[1]].st = "discarded"
    /\ notifier[drive.fired[2]].st = "ok"

\* C11: a register call made after the reactor is gone clears the liveness
\* flag of the PollerHandle it was made on and of no other, and the oneshot
\* of the Register future it returns is closed and stays closed, so the
\* future never yields an EventedHandle; a flag is cleared only when the
\* reactor is gone; a cleared flag stays cleared.
C11_RegisterAfterGone ==
    [][/\ \A h \in PollerHandles :
             /\ is_alive[h] /\ ~ is_alive'[h] => dropped
             /\ ~ is_alive[h] => ~ is_alive'[h]
       /\ \A e \in Resources :
             register_rx[e] = "closed" => register_rx'[e] = "closed"
       /\ dropped /\ next_evented' = next_evented + 1 =>
             /\ register_rx'[next_evented] = "closed"
             /\ \E h \in PollerHandles :
                   /\ ~ is_alive'[h]
                   /\ \A g \in PollerHandles \ {h} :
                         is_alive'[g] = is_alive[g]]_vars

\* C11 witness: a first register was answered with an EventedHandle, the
\* Poller was dropped, and a second register, on one of two PollerHandles,
\* failed to send.
C11_Witness ==
    /\ dropped
    /\ \E h, g \in PollerHandles : ~ is_alive[h] /\ is_alive[g]
    /\ \E e, f \in Resources :
          register_rx[e] = "ok" /\ register_rx[f] = "closed"

\* C12: a drive call that finds the request channel empty and whose OS wait
\* returns no ready event returns Ok, makes no OS-facility call but the
\* wait, sends to no notifier, and leaves the registrant map with every
\* waiter queue, the token counter, the notifiers and the arming of every
\* resource as they were.
C12_IdleDrive ==
    [][Driven /\ request_rx = << >> /\ ready' = << >>
              /\ (\E i \in 1 .. Len(drive'.calls) :
                     drive'.calls[i].op = "poll" /\ drive'.calls[i].ok) =>
          /\ drive'.result = "Ok"
          /\ Len(drive'.calls) = 1
          /\ drive'.fired = << >>
          /\ registrants' = registrants
          /\ next_token' = next_token
          /\ notifier' = notifier
          /\ os' = os
          /\ request_rx' = << >>]_vars

\* C12 witness: an idle drive call with the caller's timeout, made while a
\* registrant has a queued waiter and its resource is armed.
C12_Witness ==
    /\ drive.kind = "Poll"
    /\ drive.req = NoRequest
    /\ drive.timeout = "Caller"
    /\ drive.result = "Ok"
    /\ ready = << >>
    /\ \E t \in DOMAIN registrants :
          registrants[t].read_waitings # << >> /\ os[t].armed = {"Read"}

\* C13: a drive call takes the request at the head of the channel, if there
\* is one, and no other: the requests behind it stay, in their order, and
\* the channel shrinks by at most one; having taken a request it gives the
\* OS wait a zero timeout, and the caller's timeout otherwise; and only a
\* drive call takes a request off a channel that still exists.
C13_OneRequestPerDrive ==
    [][/\ Driven /\ request_rx # << >> =>
             /\ drive'.req = Head(request_rx)
             /\ Len(request_rx') >= Len(request_rx) - 1
             /\ SubSeq(request_rx', 1, Len(request_rx) - 1) = Tail(request_rx)
             /\ drive'.timeout = "Zero"
       /\ Driven /\ request_rx = << >> =>
             /\ drive'.req = NoRequest
             /\ request_rx' = << >>
             /\ drive'.timeout = input'.timeout
       /\ ~ Driven /\ ~ dropped' =>
             /\ Len(request_rx') >= Len(request_rx)
             /\ SubSeq(request_rx', 1, Len(request_rx)) = request_rx]_vars

\* C13 witness: two requests were pending, one drive call processed the
\* first with a zero timeout and left the second at the head.
C13_Witness ==
    /\ drive.kind = "Poll"
    /\ drive.req.type = "Register"
    /\ drive.timeout = "Zero"
    /\ drive.result = "Ok"
    /\ Len(request_rx) = 1
    /\ request_rx[1].type = "Monitor"

\* In a drive step: the call numbered i is the first call ever made into
\* the OS facility for its token's resource
FirstCall(i) ==
    LET t == drive'.calls[i].token
    IN /\ drive'.calls[i].op # "poll"
       /\ ~ os[t].asked
       /\ \A j \in 1 .. (i - 1) : drive'.calls[j].token # t

\* In a drive step: the tokens whose ready event the loop handled
Handled == {ready'[i].token : i \in 1 .. drive'.seen}

\* C14: processing Register makes no OS-facility call; it inserts, under a
\* token that was free, a registrant for the request's resource with both
\* queues empty, keeps every other registrant as it was (but for what the
\* call's own event loop does to a registrant whose event it handles), and
\* the handle it replies with has shared count 1; and the first call into
\* the OS facility for a resource is made by the processing of the first
\* Monitor request for its token.
C14_RegisterDefersOsCall ==
    [][Driven =>
          /\ drive'.req.type = "Register" =>
                /\ RequestCalls = {}
                /\ drive'.token \in DOMAIN registrants' \ DOMAIN registrants
                /\ registrants'[drive'.token].evented = drive'.req.evented
                /\ registrants'[drive'.token].read_waitings = << >>
                /\ registrants'[drive'.token].write_waitings = << >>
                /\ \A t \in DOMAIN registrants :
                      /\ t \in DOMAIN registrants'
                      /\ t \notin Handled => registrants'[t] = registrants[t]
                /\ input'.replyAlive =>
                      /\ register_rx'[drive'.req.evented] = "ok"
                      /\ handles'[drive'.token].shared_count = 1
                      /\ handles'[drive'.token].live = 1
          /\ \A i \in 1 .. Len(drive'.calls) :
                FirstCall(i) =>
                   /\ drive'.calls[i].by = "request"
                   /\ drive'.req.type = "Monitor"
                   /\ drive'.req.token = drive'.calls[i].token
                   /\ registrants[drive'.req.token].read_waitings = << >>
                   /\ registrants[drive'.req.token].write_waitings = << >>]_vars

\* C15: while the reactor exists, a registrant leaves the map in a step if
\* and only if the step is a drive call that processes a Deregister request
\* for its token; that call removes the registrant of that token and no
\* other, whether or not its OS-facility call succeeds; and a registrant
\* that stays keeps its resource.
C15_RemovedOnlyByDeregister ==
    [][~ dropped' =>
          /\ DOMAIN registrants \ DOMAIN registrants' =
                IF Driven /\ drive'.req.type = "Deregister"
                THEN {drive'.req.token} ELSE {}
          /\ \A t \in DOMAIN registrants \cap DOMAIN registrants' :
                registrants'[t].evented = registrants[t].evented]_vars

\* C15 witness: of two registrants, one was removed by its Deregister and
\* the other, which has a queued waiter, is still in the map.
C15_Witness ==
    /\ drive.kind = "Poll"
    /\ drive.req.type = "Deregister"
    /\ DOMAIN registrants = Tokens \ {drive.req.token}
    /\ \E t \in DOMAIN registrants, d \in Interest :
          waitings(registrants[t], d) # << >>

\* In a drive step: the directions of the token of the event numbered i
\* that the event did not report and that had a waiter when the wait
\* returned
Remaining(i) ==
    {d \in Interest \ ready'[i].kind : QueueAtWait(ready'[i].token, d) # << >>}

\* C16: for every ready event a drive call handles, the directions whose
\* queue is non-empty after the firing are those the event did not report
\* and that had waiters; when there is none the call makes no OS-facility
\* call for the token, and otherwise it makes exactly one, an arming call
\* whose interest is exactly those directions, which is what the resource
\* is armed with when the call succeeds.
C16_RearmWithRemaining ==
    [][Driven =>
          \A i \in 1 .. drive'.seen :
             LET t == ready'[i].token
             IN /\ {d \in Interest : waitings(registrants'[t], d) # << >>}
                      = Remaining(i)
                /\ Remaining(i) = {} =>
                      EventCalls(t) = {} /\ os'[t].armed = {}
                /\ Remaining(i) # {} =>
                      /\ Cardinality(EventCalls(t)) = 1
                      /\ \A k \in EventCalls(t) :
                            /\ drive'.calls[k].op \in Arming
                            /\ drive'.calls[k].interest = Remaining(i)
                            /\ drive'.calls[k].ok =>
                                  os'[t].armed = Remaining(i)]_vars

\* C16 witness: one event reported both directions, the reader and the
\* writer were sent to, both queues are empty and no rearm call was made.
C16_Witness ==
    /\ drive.kind = "Poll"
    /\ drive.result = "Ok"
    /\ Len(ready) = 1
    /\ ready[1].kind = Interest
    /\ Len(drive.fired) = 2
    /\ \A k \in 1 .. Len(drive.calls) : drive.calls[k].by # "event"
    /\ registrants[ready[1].token].read_waitings = << >>
    /\ registrants[ready[1].token].write_waitings = << >>
    /\ os[ready[1].token].armed = {}

\* In a drive step: the notifiers in the queues that the handled events
\* reported
FiredBy(i) ==
    UNION {Range(QueueAtWait(ready'[i].token, d)) : d \in ready'[i].kind}

\* C17: when a call into the OS facility fails in a drive call, the drive
\* call returns the error and the failed call is the last call it made.  A
\* failure while the request is processed or in the wait comes before any
\* event is handled; a failure of a rearm belongs to the last event the
\* loop handled.  No notifier is sent to but those of the events handled
\* up to the failure: the waiters of the events behind it are left queued
\* and unsent.
C17_ErrorEndsDrive ==
    [][Driven =>
          \A i \in 1 .. Len(drive'.calls) :
             ~ drive'.calls[i].ok =>
                /\ drive'.result = "Err"
                /\ i = Len(drive'.calls)
                /\ drive'.calls[i].by \in {"request", "wait"} =>
                      drive'.seen = 0 /\ drive'.fired = << >>
                /\ drive'.calls[i].by = "event" =>
                      /\ drive'.seen >= 1
                      /\ drive'.calls[i].token = ready'[drive'.seen].token
                /\ \A n \in Notifiers :
                      notifier'[n].sends # notifier[n].sends
                         \/ n \in Range(drive'.fired) =>
                            \E j \in 1 .. drive'.seen : n \in FiredBy(j)
                /\ \A j \in (drive'.seen + 1) .. Len(ready') :
                      \A d \in Interest :
                         waitings(registrants'[ready'[j].token], d)
                            = QueueAtWait(ready'[j].token, d)]_vars

\* C17 witness: the wait returned two events; the rearm made for the first
\* failed, the drive call returned the error, and the waiter that the
\* second event was for is still queued and was not sent to.
C17_Witness ==
    /\ drive.kind = "Poll"
    /\ drive.result = "Err"
    /\ Len(ready) = 2
    /\ drive.seen = 1
    /\ drive.calls[Len(drive.calls)].by = "event"
    /\ ready[2].kind # {}
    /\ \E d \in ready[2].kind :
          /\ waitings(registrants[ready[2].token], d) # << >>
          /\ \A n \in Range(waitings(registrants[ready[2].token], d)) :
                notifier[n].st = "queued" /\ notifier[n].sends = 0

\* C18: the token that processing Register allocates is the first of
\* next_token, next_token + 1, ... (modulo the width of the token space)
\* that is not a key of the map, found after at most TokenSpace - 1 skips,
\* and next_token is left one past it, modulo the width; and the drive call
\* that processes a Register can always be made when a token is free.
C18_FirstFreeFromCounter ==
    /\ [][Driven /\ drive'.req.type = "Register" =>
             /\ \E k \in 0 .. (TokenSpace - 1) :
                   /\ drive'.token = (next_token + k) % TokenSpace
                   /\ drive'.token \notin DOMAIN registrants
                   /\ \A j \in 0 .. (k - 1) :
                         (next_token + j) % TokenSpace \in DOMAIN registrants
             /\ next_token' = (drive'.token + 1) % TokenSpace]_vars
    /\ [](/\ ~ dropped /\ ~ panicked
          /\ request_rx # << >> /\ Head(request_rx).type = "Register"
          /\ DOMAIN registrants # Tokens
          => ENABLED Poll)

\* C18 witness: with the counter wrapped to 0 and token 0 held by the first
\* resource, the allocator skipped token 0, gave the last token of the range
\* to the third resource, and wrapped the counter again.
C18_Witness ==
    /\ drive.kind = "Poll"
    /\ drive.req.type = "Register"
    /\ drive.token = TokenSpace - 1
    /\ next_token = 0
    /\ 0 \in DOMAIN registrants
    /\ registrants[0].evented = 1
    /\ registrants[drive.token].evented = 3

\* C19: no assert_some! of the reactor fails.  Every Monitor and Deregister
\* request in the channel names a token whose registrant is in the map;
\* nothing for a token is behind its Deregister in the channel, so its
\* Monitor requests are processed first and it has one Deregister at most;
\* and the OS facility is armed for no token that has no registrant, so no
\* wait returns an event for one.
C19_AssertionsHold ==
    /\ ~ panicked
    /\ drive.result # "Panic"
    /\ \A i \in 1 .. Len(request_rx) :
          request_rx[i].type \in {"Monitor", "Deregister"} =>
             /\ request_rx[i].token \in DOMAIN registrants
             /\ \A j \in 1 .. (i - 1) :
                   request_rx[j].type = "Deregister" =>
                      request_rx[j].token # request_rx[i].token
    /\ \A t \in Tokens \ DOMAIN registrants : os[t].armed = {}

\* C19 witness: a handle sent a Monitor and was dropped; the drive call
\* processed the Monitor and armed the resource while the Deregister of the
\* token was next in the channel.
C19_Witness ==
    /\ drive.kind = "Poll"
    /\ drive.req.type = "Monitor"
    /\ drive.result = "Ok"
    /\ handles[drive.req.token].live = 0
    /\ os[drive.req.token].armed # {}
    /\ request_rx # << >>
    /\ Head(request_rx) = [type |-> "Deregister", token |-> drive.req.token]

\* every direction of every registrant that has a waiter is armed
AllWaitersArmed ==
    \A t \in DOMAIN registrants : \A d \in Interest :
       waitings(registrants[t], d) # << >> => d \in os[t].armed

====
